---- MODULE Spec2Model ----
(***************************************************************************)
(* A model of the cac command-line parser (src/src/CAC.ts): the registry   *)
(* (commands, global options, help/version switches), and parse with its   *)
(* matching loops, the option-assignment pass (CAC.mri), the help/version  *)
(* short-circuit and runMatchedCommand.  Command.ts, Option.ts, utils.ts   *)
(* and the mri library are not part of the sources at hand; their          *)
(* operators are written from the specification (sections 3 and 4).        *)
(***************************************************************************)
EXTENDS Integers, Sequences, FiniteSets, TLC

\* The registry: commands, globalOptions (the options of the global command),
\* showHelpOnExit, showVersionOnExit, and heap, the objects that declared
\* default values refer to.  pristine is heap as it was declared.  The last
\* call of parse: call (its arguments), cntx (the context it returned), err
\* (the error it raised), returned, and what it did: bound (the context as
\* the matching stage left it), events (emitted), outputs (help and version
\* texts shown), calls (handler invocations).
VARIABLES commands, globalOptions, showHelpOnExit, showVersionOnExit, heap,
          pristine, call, cntx, err, returned, bound, events, outputs, calls

vars == <<commands, globalOptions, showHelpOnExit, showVersionOnExit, heap,
          pristine, call, cntx, err, returned, bound, events, outputs, calls>>

(***************************************************************************)
(* Bounds.                                                                 *)
(***************************************************************************)
\* longest token sequence (after the two execution-path entries) handed to parse
MaxArgv == 2
\* most commands a registry holds
MaxCommands == 2

(***************************************************************************)
(* JavaScript values.  Every value is a record of one shape so that any    *)
(* two values can be compared: t is the kind (u undefined, b boolean,      *)
(* s string, n number, a array, o object owned by the mapping that holds   *)
(* it, r reference to an object of the heap, p pending handler result),    *)
(* s the text, n the number of times the coercion function was applied,    *)
(* a the elements, o the fields, r the heap address.                       *)
(***************************************************************************)
Val(t, s, n, a, o, r) == [t |-> t, s |-> s, n |-> n, a |-> a, o |-> o, r |-> r]
Undef == Val("u", "", 0, <<>>, {}, 0)
True == Val("b", "true", 0, <<>>, {}, 0)
False == Val("b", "false", 0, <<>>, {}, 0)
Str(s) == Val("s", s, 0, <<>>, {}, 0)
Num(s) == Val("n", s, 0, <<>>, {}, 0)
Arr(a) == Val("a", "", 0, a, {}, 0)
Obj(o) == Val("o", "", 0, <<>>, o, 0)
Ref(r) == Val("r", "", 0, <<>>, {}, r)
Pending(i) == Val("p", "", 0, <<>>, {}, i)

\* JavaScript truthiness of a value
Truthy(v) == ~(v = Undef \/ v = False \/ v = Str("") \/ v = Num("0"))

\* a value with every heap reference replaced by the object it points to
Deep(v, h) == IF v.t = "r" THEN Obj(h[v.r]) ELSE v

\* the sentinel for a missing string (JavaScript undefined)
undefined == "<undefined>"
\* the number 0 where a string is expected (mri turns "" into 0)
NumZero == "<0>"
\* JavaScript truthiness of a positional entry
TruthyArg(s) == ~(s = "" \/ s = NumZero \/ s = undefined)

(***************************************************************************)
(* Tokens.  A token is its raw text; Lex is mri's classification of it:    *)
(* no leading dash: positional; dashes then "no-": negation; else a flag   *)
(* name with an optional inline value after "=".                           *)
(***************************************************************************)
Tok(kind, name, val) == [kind |-> kind, name |-> name, val |-> val]

Lex(arg) ==
    CASE arg = "--help" -> Tok("flag", "help", "")
      [] arg = "--version" -> Tok("flag", "version", "")
      [] arg = "--zz" -> Tok("flag", "zz", "")
      [] arg = "-r" -> Tok("flag", "r", "")
      [] arg = "--out=x" -> Tok("flag", "out", "x")
      [] arg = "--type" -> Tok("flag", "type", "")
      [] arg = "-t" -> Tok("flag", "t", "")
      [] arg = "--env.b" -> Tok("flag", "env.b", "")
      [] arg = "--env.c=x" -> Tok("flag", "env.c", "x")
      [] arg = "--no-clear-screen" -> Tok("neg", "clear-screen", "")
      [] arg = "--" -> Tok("dd", "", "")
      [] OTHER -> Tok("pos", "", "")

\* (''+arg).charCodeAt(0) === 45
StartsWithDash(arg) == Lex(arg).kind # "pos"

\* key.split('.')
SplitDots(key) ==
    CASE key = "env.b" -> <<"env", "b">>
      [] key = "env.c" -> <<"env", "c">>
      [] OTHER -> <<key>>

\* the option keys a parse can produce or a declaration can name
Keys == {"--", "help", "h", "version", "v", "zz", "r", "recursive", "out",
         "type", "t", "env", "clearScreen"}
\* the flag names mri can record
RawKeys == {"help", "h", "version", "v", "zz", "r", "recursive", "out",
            "type", "t", "env.b", "env.c", "clear-screen"}

Range(s) == {s[i] : i \in DOMAIN s}
SubSeqFrom(s, i) == IF i > Len(s) THEN <<>> ELSE SubSeq(s, i, Len(s))
\* Array.prototype.indexOf, 1-based; 0 when absent
IndexOf(s, x) ==
    IF x \in Range(s) THEN CHOOSE i \in DOMAIN s : s[i] = x /\ \A j \in 1..(i-1) : s[j] # x
    ELSE 0

(***************************************************************************)
(* Option Model (specification 4.1): the descriptor of a declared option.  *)
(* names are sorted by length, the last (longest) one is the canonical     *)
(* name; shape is boolean, required (<..>) or optional ([..]); a --no-     *)
(* declaration is negated and defaults to true; coerce is set when         *)
(* config.type is a one-element array holding a coercion function.         *)
(***************************************************************************)
OptionNames(rawName) ==
    CASE rawName = "-h, --help" -> <<"h", "help">>
      [] rawName = "-v, --version" -> <<"v", "version">>
      [] rawName = "-r, --recursive" -> <<"r", "recursive">>
      [] rawName = "-t, --type [type]" -> <<"t", "type">>
      [] rawName = "--out <dir>" -> <<"out">>
      [] rawName = "--env.* [value]" -> <<"env">>
      [] rawName = "--no-clear-screen" -> <<"clearScreen">>

OptionShape(rawName) ==
    CASE rawName \in {"--out <dir>"} -> "required"
      [] rawName \in {"-t, --type [type]", "--env.* [value]"} -> "optional"
      [] OTHER -> "boolean"

Option(rawName, default, coerce) ==
    LET names == OptionNames(rawName)
        negated == rawName = "--no-clear-screen"
    IN [rawName |-> rawName,
        names |-> names,
        name |-> names[Len(names)],
        shape |-> OptionShape(rawName),
        negated |-> negated,
        default |-> IF negated /\ default = Undef THEN True ELSE default,
        coerce |-> coerce]

(***************************************************************************)
(* Command Model (specification 4.2): the descriptor of a declared         *)
(* command with the options and the handler chained onto it.  name is the  *)
(* literal prefix of rawName ("" for the default command), args the        *)
(* positionals in declaration order.                                       *)
(***************************************************************************)
Positional(required, variadic) == [required |-> required, variadic |-> variadic]

CommandName(rawName) ==
    CASE rawName = "build" -> "build"
      [] rawName = "rm <dir>" -> "rm"
      [] rawName = "[src] [...rest]" -> ""
      [] rawName = "" -> ""

CommandArgs(rawName) ==
    CASE rawName = "rm <dir>" -> <<Positional(TRUE, FALSE)>>
      [] rawName = "[src] [...rest]" -> <<Positional(FALSE, FALSE), Positional(FALSE, TRUE)>>
      [] OTHER -> <<>>

Command(rawName, options, hasAction, allowUnknownOptions, ignoreOptionDefaultValue) ==
    [rawName |-> rawName,
     name |-> CommandName(rawName),
     args |-> CommandArgs(rawName),
     options |-> options,
     commandAction |-> hasAction,
     config |-> [allowUnknownOptions |-> allowUnknownOptions,
                 ignoreOptionDefaultValue |-> ignoreOptionDefaultValue]]

\* Command.isMatched: the token equals the command's literal name
isMatched(command, name) == command.name = name

\* no command (JavaScript undefined where a Command is expected)
NoCommand == 0

(***************************************************************************)
(* utils.getMriOptions: the tokenizer's configuration for an option set.   *)
(* alias maps a name to the other names of its option (as mri expands      *)
(* it), boolean holds the names of the boolean options.                    *)
(***************************************************************************)
AllNames == Keys \cup RawKeys

Without(s, i) == SubSeq(s, 1, i - 1) \o SubSeqFrom(s, i + 1)

RECURSIVE AliasOf(_, _, _)
AliasOf(options, i, alias) ==
    IF i > Len(options) THEN alias
    ELSE LET ns == options[i].names
             next == IF Len(ns) > 1
                     THEN [k \in AllNames |->
                             IF k \in Range(ns)
                             THEN LET j == IndexOf(ns, k)
                                  IN IF j = 1 THEN SubSeqFrom(ns, 2)
                                     ELSE Without(SubSeqFrom(ns, 2), j - 1) \o <<ns[1]>>
                             ELSE alias[k]]
                     ELSE alias
         IN AliasOf(options, i + 1, next)

MriOptions(options, alias) ==
    LET hasStringTypeOption(i) ==
            \E j \in DOMAIN options :
                /\ j # i
                /\ Range(options[j].names) \cap Range(options[i].names) # {}
                /\ options[j].shape # "boolean"
        heads == {options[i].names[1] : i \in
                    {i \in DOMAIN options :
                        /\ options[i].shape = "boolean"
                        /\ (options[i].negated => ~hasStringTypeOption(i))}}
    IN [alias |-> alias,
        boolean |-> heads \cup UNION {Range(alias[k]) : k \in heads}]

getMriOptions(options) == MriOptions(options, AliasOf(options, 1, [k \in AllNames |-> <<>>]))

(***************************************************************************)
(* Low-Level Tokenizer (the mri library, specification 4.3).  out.pos is   *)
(* the list "_", out.keys the flag names in insertion order, out.val       *)
(* their values.                                                           *)
(***************************************************************************)
SetOut(out, key, v) ==
    [out EXCEPT !.keys = IF key \in Range(@) THEN @ ELSE Append(@, key),
                !.val[key] = v]

\* +val is a number
Numeric(s) == s = ""

toVal(out, key, val, opts) ==
    LET old == out.val[key]
        isBool == val.t = "b"
        pushed == IF Numeric(val.s) THEN NumZero ELSE val.s
        nxt == IF isBool THEN val
               ELSE IF key \in opts.boolean
                    THEN (IF val.s = "false" THEN False
                          ELSE IF val.s = "true" \/ Truthy(val) THEN True ELSE False)
               ELSE IF Numeric(val.s) THEN Num("0") ELSE val
        out1 == IF ~isBool /\ key \in opts.boolean /\ val.s \notin {"true", "false"}
                THEN [out EXCEPT !.pos = Append(@, pushed)]
                ELSE out
        acc == IF old = Undef \/ nxt.t = "b" THEN nxt
               ELSE IF old.t = "a" THEN Arr(Append(old.a, nxt))
               ELSE Arr(<<old, nxt>>)
    IN SetOut(out1, key, acc)

RECURSIVE MriScan(_, _, _, _)
MriScan(args, i, opts, out) ==
    IF i > Len(args) THEN out
    ELSE LET tok == Lex(args[i]) IN
         CASE tok.kind = "pos" ->
                MriScan(args, i + 1, opts, [out EXCEPT !.pos = Append(@, args[i])])
           [] tok.kind = "neg" ->
                MriScan(args, i + 1, opts, SetOut(out, tok.name, False))
           [] OTHER ->
                LET inline == tok.val # ""
                    takes == ~inline /\ i < Len(args) /\ ~StartsWithDash(args[i + 1])
                    val == IF inline THEN Str(tok.val)
                           ELSE IF takes THEN Str(args[i + 1])
                           ELSE True
                IN MriScan(args, IF takes THEN i + 2 ELSE i + 1, opts,
                           toVal(out, tok.name, val, opts))

RECURSIVE CopyTo(_, _, _, _)
CopyTo(out, k, arr, j) ==
    IF j > Len(arr) THEN out
    ELSE CopyTo(SetOut(out, arr[j], out.val[k]), k, arr, j + 1)

\* for (k in out) out[each alias of k] = out[k]
RECURSIVE MriAliases(_, _, _, _)
MriAliases(out, ks, i, opts) ==
    IF i > Len(ks) THEN out
    ELSE MriAliases(CopyTo(out, ks[i], opts.alias[ks[i]], 1), ks, i + 1, opts)

MriFinish(scanned, opts) == MriAliases(scanned, scanned.keys, 1, opts)

mriLib(args, opts) ==
    MriFinish(MriScan(args, 1, opts,
                      [pos |-> <<>>, keys |-> <<>>, val |-> [k \in AllNames |-> Undef]]),
              opts)

\* utils.camelcaseOptionName: camel-case the part before the first dot
camelcaseOptionName(name) ==
    CASE name = "clear-screen" -> "clearScreen"
      [] OTHER -> name

(***************************************************************************)
(* Option Assignment Engine: utils.setDotProp and utils.setByType          *)
(* (specification 4.4) and CAC.mri.  An assignment pass carries the        *)
(* options mapping, the heap of the objects the registry owns and the      *)
(* error raised so far ("" when none).                                     *)
(***************************************************************************)
Field(k, v) == [k |-> k, v |-> v]
SetField(o, k, v) == {f \in o : f.k # k} \cup {Field(k, v)}

EmptyOptions == [k \in Keys |-> Undef]

\* walk or create the nested levels of a dot-path, then set the leaf
setDotProp(st, keys, val) ==
    IF Len(keys) = 1 THEN [st EXCEPT !.options[keys[1]] = val]
    ELSE LET x == st.options[keys[1]] IN
         CASE x = Undef -> [st EXCEPT !.options[keys[1]] = Obj({Field(keys[2], val)})]
           [] x.t = "o" -> [st EXCEPT !.options[keys[1]] = Obj(SetField(x.o, keys[2], val))]
           [] x.t = "r" -> [st EXCEPT !.heap[x.r] = SetField(@, keys[2], val)]
           [] x.t = "a" -> st
           [] OTHER -> [st EXCEPT !.err = "TypeError"]

\* the coercion function of an option, applied to one element
Coerce(v) == [v EXCEPT !.n = @ + 1]

\* Array.prototype.concat.call([], v)
ToArray(v) == IF v.t = "a" THEN v.a ELSE <<v>>

RECURSIVE setByTypeFrom(_, _, _)
setByTypeFrom(options, transforms, i) ==
    IF i > Len(transforms) THEN options
    ELSE LET key == transforms[i]
             arr == ToArray(options[key])
         IN setByTypeFrom(
                [options EXCEPT ![key] = Arr([j \in DOMAIN arr |-> Coerce(arr[j])])],
                transforms, i + 1)

\* coerce the value under every name of transforms into an array of coerced elements
setByType(options, transforms) == setByTypeFrom(options, transforms, 1)

\* lines 270-278: the parsed keys, camel-cased, in insertion order
RECURSIVE CamelKeys(_, _, _)
CamelKeys(parsed, i, acc) ==
    IF i > Len(parsed.keys) THEN acc
    ELSE CamelKeys(parsed, i + 1,
                   SetOut(acc, camelcaseOptionName(parsed.keys[i]), parsed.val[parsed.keys[i]]))

\* lines 294-299: every declared default under every alias name
RECURSIVE SetDefaults(_, _, _, _)
SetDefaults(options, cliOptions, ignoreDefault, i) ==
    IF i > Len(cliOptions) THEN options
    ELSE LET o == cliOptions[i]
             next == IF ~ignoreDefault /\ o.default # Undef
                     THEN [k \in Keys |-> IF k \in Range(o.names) THEN o.default ELSE options[k]]
                     ELSE options
         IN SetDefaults(next, cliOptions, ignoreDefault, i + 1)

\* lines 301-310: the canonical names of the options that declare a coercion
RECURSIVE Transforms(_, _, _)
Transforms(cliOptions, i, acc) ==
    IF i > Len(cliOptions) THEN acc
    ELSE Transforms(cliOptions, i + 1,
                    IF cliOptions[i].coerce /\ cliOptions[i].name \notin Range(acc)
                    THEN Append(acc, cliOptions[i].name) ELSE acc)

\* line 318, after line 317 has set the key
CoerceAfterSet(set, transforms) ==
    IF set.err # "" THEN set ELSE [set EXCEPT !.options = setByType(@, transforms)]

\* lines 313-320: set every parsed key, coercing after each one
RECURSIVE SetValues(_, _, _, _)
SetValues(st, parsed, transforms, i) ==
    IF i > Len(parsed.keys) \/ st.err # "" THEN st
    ELSE SetValues(
            CoerceAfterSet(
                setDotProp(st, SplitDots(parsed.keys[i]), parsed.val[parsed.keys[i]]),
                transforms),
            parsed, transforms, i + 1)

\* a variant that keeps the separator: argv.slice(doubleDashesIndex)
AfterDoubleDashesInclusive(argv) ==
    LET doubleDashesIndex == IndexOf(argv, "--")
    IN IF doubleDashesIndex > 0 THEN SubSeqFrom(argv, doubleDashesIndex) ELSE <<>>

\* lines 262-267: the tokens after the first standalone "--", and those before it
AfterDoubleDashes(argv) ==
    LET doubleDashesIndex == IndexOf(argv, "--")
    IN IF doubleDashesIndex > 0 THEN SubSeqFrom(argv, doubleDashesIndex + 1) ELSE <<>>
BeforeDoubleDashes(argv) ==
    LET doubleDashesIndex == IndexOf(argv, "--")
    IN IF doubleDashesIndex > 0 THEN SubSeq(argv, 1, doubleDashesIndex - 1) ELSE argv

\* lines 282-325: the options mapping of one pass, from the camel-cased parse
Assign(parsed, argsAfterDoubleDashes, cliOptions, ignoreDefault, h) ==
    SetValues([options |-> SetDefaults(
                              [EmptyOptions EXCEPT
                                  !["--"] = Arr([j \in DOMAIN argsAfterDoubleDashes |->
                                                   Str(argsAfterDoubleDashes[j])])],
                              cliOptions, ignoreDefault, 1),
               heap |-> h, err |-> ""],
              parsed, Transforms(cliOptions, 1, <<>>), 1)

ParsedArgv(parsed, done) ==
    [args |-> parsed.pos, options |-> done.options, heap |-> done.heap, err |-> done.err]

AssignParsed(parsed, argsAfterDoubleDashes, cliOptions, ignoreDefault, h) ==
    ParsedArgv(parsed, Assign(parsed, argsAfterDoubleDashes, cliOptions, ignoreDefault, h))

\* lines 269-278
Camelcased(raw) ==
    CamelKeys(raw, 1, [pos |-> raw.pos, keys |-> <<>>, val |-> [k \in AllNames |-> Undef]])

MriWith(argv, cliOptions, ignoreDefault, h) ==
    AssignParsed(Camelcased(mriLib(BeforeDoubleDashes(argv), getMriOptions(cliOptions))),
                 AfterDoubleDashes(argv), cliOptions, ignoreDefault, h)

\* CAC.mri: tokenize argv under (global options and the options of command
\* number i of cmds, NoCommand for none) and assign.  The global command's
\* configuration never sets ignoreOptionDefaultValue.
mri(argv, cmds, i, gopts, h) ==
    MriWith(argv,
            gopts \o (IF i = NoCommand THEN <<>> ELSE cmds[i].options),
            i # NoCommand /\ cmds[i].config.ignoreOptionDefaultValue,
            h)

(***************************************************************************)
(* Validator (Command.checkUnknownOptions, checkOptionValue and            *)
(* checkRequiredArgs, specification 4.6).  Each yields the error it        *)
(* raises, "" when the check passes.                                       *)
(***************************************************************************)
OptionNamesOf(options) == UNION {Range(options[i].names) : i \in DOMAIN options}

PresentKeys(options) == {k \in Keys : options[k] # Undef}

checkUnknownOptions(command, gopts, c) ==
    IF ~command.config.allowUnknownOptions
       /\ \E k \in PresentKeys(c.options) :
            k # "--" /\ k \notin OptionNamesOf(command.options) \cup OptionNamesOf(gopts)
    THEN "UnknownOption" ELSE ""

checkOptionValue(command, gopts, c) ==
    LET options == gopts \o command.options
    IN IF \E i \in DOMAIN options :
            options[i].shape = "required" /\ c.options[options[i].name] = Undef
       THEN "MissingOptionValue" ELSE ""

checkRequiredArgs(command, c) ==
    LET minimalArgsCount == Cardinality({i \in DOMAIN command.args : command.args[i].required})
    IN IF Len(c.args) < minimalArgsCount THEN "MissingRequiredArg" ELSE ""

(***************************************************************************)
(* Dispatcher: CAC.runMatchedCommand.  A parse in progress is the record   *)
(* st: the context, the heap, the error raised, the events emitted, the    *)
(* help/version outputs and the handler invocations.                       *)
(***************************************************************************)
\* a positional entry as a value
ArgVal(s) == IF s = NumZero THEN Num("0") ELSE Str(s)

\* the options mapping as the object handed to the handler
OptionsObject(options) == Obj({Field(k, options[k]) : k \in PresentKeys(options)})

\* a variant whose variadic positional starts one token late: args.slice(index + 1)
actionArgsLateVariadic(command, c) ==
    <<Str(c.env)>>
    \o [index \in DOMAIN command.args |->
          IF command.args[index].variadic
          THEN LET rest == SubSeqFrom(c.args, index + 1)
               IN Arr([j \in DOMAIN rest |-> ArgVal(rest[j])])
          ELSE IF index <= Len(c.args) THEN ArgVal(c.args[index]) ELSE Undef]
    \o <<OptionsObject(c.options)>>

\* lines 339-347: [env, one entry per declared positional, options]
actionArgs(command, c) ==
    <<Str(c.env)>>
    \o [index \in DOMAIN command.args |->
          IF command.args[index].variadic
          THEN LET rest == SubSeqFrom(c.args, index)
               IN Arr([j \in DOMAIN rest |-> ArgVal(rest[j])])
          ELSE IF index <= Len(c.args) THEN ArgVal(c.args[index]) ELSE Undef]
    \o <<OptionsObject(c.options)>>

\* a variant that runs the required-argument check first
FirstOfArgsFirst(e1, e2, e3) == IF e3 # "" THEN e3 ELSE IF e1 # "" THEN e1 ELSE e2

\* lines 333-337: the first check that fails, in the order the code runs them
FirstOf(e1, e2, e3) == IF e1 # "" THEN e1 ELSE IF e2 # "" THEN e2 ELSE e3

\* a variant that leaves out the unknown-option check
firstErrorNoUnknown(command, gopts, c) ==
    FirstOf("", checkOptionValue(command, gopts, c), checkRequiredArgs(command, c))

firstError(command, gopts, c) ==
    FirstOf(checkUnknownOptions(command, gopts, c),
            checkOptionValue(command, gopts, c),
            checkRequiredArgs(command, c))

\* what the handler of command number i returns: a computation still pending
handlerResult(i) == Pending(i)

\* lines 333-348, for the matched command: the checks, then the handler
Dispatch(st, command, e) ==
    IF e # "" THEN [st EXCEPT !.err = e]
    ELSE [st EXCEPT
            !.calls = Append(@, [command |-> st.cntx.matchedCommand,
                                 args |-> actionArgs(command, st.cntx)]),
            !.cntx.result = handlerResult(st.cntx.matchedCommand)]

runMatchedCommand(st, cmds, gopts) ==
    IF st.cntx.matchedCommand = NoCommand THEN st
    ELSE IF ~cmds[st.cntx.matchedCommand].commandAction THEN st
    ELSE Dispatch(st, cmds[st.cntx.matchedCommand],
                  firstError(cmds[st.cntx.matchedCommand], gopts, st.cntx))

(***************************************************************************)
(* CAC.parse.                                                              *)
(***************************************************************************)
Event(name, arg) == <<name, arg>>

\* lines 148-162
setParsedInfo(c, args, options, matchedCommand, matchedCommandName) ==
    [c EXCEPT !.args = args,
              !.options = options,
              !.matchedCommand = IF matchedCommand # NoCommand THEN matchedCommand ELSE @,
              !.matchedCommandName =
                  IF TruthyArg(matchedCommandName) THEN matchedCommandName ELSE @]

\* a variant that clears the name only
unsetMatchedCommandName(c) == [c EXCEPT !.matchedCommandName = undefined]

\* lines 164-167
unsetMatchedCommand(c) ==
    [c EXCEPT !.matchedCommand = NoCommand, !.matchedCommandName = undefined]

\* lines 192-203: one candidate of the first loop, given its tokenization
TryCommand(st, command, i, parsed, commandName) ==
    IF parsed.err # "" THEN [st EXCEPT !.err = parsed.err, !.heap = parsed.heap]
    ELSE IF isMatched(command, commandName)
    THEN [st EXCEPT
            !.heap = parsed.heap,
            !.shouldParse = FALSE,
            !.cntx = setParsedInfo(@, SubSeqFrom(parsed.args, 2), parsed.options,
                                   i, commandName),
            !.events = Append(@, Event("command", commandName))]
    ELSE [st EXCEPT !.heap = parsed.heap]

\* parsed.args[0]
FirstArg(parsed) == IF Len(parsed.args) > 0 THEN parsed.args[1] ELSE undefined

TryParsed(st, command, i, parsed) == TryCommand(st, command, i, parsed, FirstArg(parsed))

\* lines 190-204: every command, in registration order
RECURSIVE SearchSubCommands(_, _, _, _, _)
SearchSubCommands(st, cmds, gopts, toks, i) ==
    IF i > Len(cmds) \/ st.err # "" THEN st
    ELSE SearchSubCommands(TryParsed(st, cmds[i], i, mri(toks, cmds, i, gopts, st.heap)),
                           cmds, gopts, toks, i + 1)

\* lines 210-213: a default command, given its tokenization
BindDefault(st, i, parsed) ==
    IF parsed.err # "" THEN [st EXCEPT !.err = parsed.err, !.heap = parsed.heap]
    ELSE [st EXCEPT
            !.heap = parsed.heap,
            !.shouldParse = FALSE,
            !.cntx = setParsedInfo(@, parsed.args, parsed.options, i, undefined),
            !.events = Append(@, Event("command", "!"))]

\* lines 206-216: every command whose name is empty
RECURSIVE SearchDefaultCommand(_, _, _, _, _)
SearchDefaultCommand(st, cmds, gopts, toks, i) ==
    IF i > Len(cmds) \/ st.err # "" THEN st
    ELSE SearchDefaultCommand(
            IF cmds[i].name = ""
            THEN BindDefault(st, i, mri(toks, cmds, i, gopts, st.heap))
            ELSE st,
            cmds, gopts, toks, i + 1)

\* lines 219-220
BindGlobal(st, parsed) ==
    IF parsed.err # "" THEN [st EXCEPT !.err = parsed.err, !.heap = parsed.heap]
    ELSE [st EXCEPT !.heap = parsed.heap,
                    !.cntx = setParsedInfo(@, parsed.args, parsed.options,
                                           NoCommand, undefined)]

\* lines 218-221
ParseGlobal(st, gopts, toks) ==
    IF st.err = "" /\ st.shouldParse
    THEN BindGlobal(st, mri(toks, <<>>, NoCommand, gopts, st.heap))
    ELSE st

\* lines 206-216
ParseDefault(st, cmds, gopts, toks) ==
    IF st.err = "" /\ st.shouldParse
    THEN SearchDefaultCommand(st, cmds, gopts, toks, 1)
    ELSE st

\* lines 223-227
HelpOnExit(st, help) ==
    IF Truthy(st.cntx.options["help"]) /\ help
    THEN [st EXCEPT !.outputs = Append(@, <<"help", st.cntx.matchedCommand>>),
                    !.run = FALSE,
                    !.cntx = unsetMatchedCommand(@)]
    ELSE st

\* lines 229-237
VersionOnExit(st, version) ==
    IF Truthy(st.cntx.options["version"]) /\ version
       /\ st.cntx.matchedCommandName = undefined
    THEN [st EXCEPT !.outputs = Append(@, <<"version", NoCommand>>),
                    !.run = FALSE,
                    !.cntx = unsetMatchedCommand(@)]
    ELSE st

\* lines 243-245
EmitUnknownCommand(st) ==
    IF st.cntx.matchedCommand = NoCommand /\ Len(st.cntx.args) > 0
       /\ TruthyArg(st.cntx.args[1])
    THEN [st EXCEPT !.events = Append(@, Event("command", "*"))]
    ELSE st

NewCntx(env, argv) ==
    [env |-> env, rawArgs |-> argv, args |-> <<>>, options |-> EmptyOptions,
     matchedCommand |-> NoCommand, matchedCommandName |-> undefined, result |-> Undef]

NewParse(h, env, argv, run) ==
    [cntx |-> NewCntx(env, argv), heap |-> h, err |-> "", events |-> <<>>,
     outputs |-> <<>>, calls |-> <<>>, shouldParse |-> TRUE, run |-> run,
     bound |-> NewCntx(env, argv)]

\* lines 188-221: the matching stage
Matching(cmds, gopts, h, env, argv, run) ==
    ParseGlobal(
        ParseDefault(
            SearchSubCommands(NewParse(h, env, argv, run), cmds, gopts, SubSeqFrom(argv, 3), 1),
            cmds, gopts, SubSeqFrom(argv, 3)),
        gopts, SubSeqFrom(argv, 3))

\* lines 239-241
RunStage(st, cmds, gopts) == IF st.run THEN runMatchedCommand(st, cmds, gopts) ELSE st

\* lines 243-247
Finish(st) == IF st.err # "" THEN st ELSE EmitUnknownCommand(st)

\* lines 223-247
AfterMatching(st, cmds, gopts, help, version) ==
    IF st.err # "" THEN st
    ELSE Finish(RunStage(VersionOnExit(HelpOnExit([st EXCEPT !.bound = st.cntx], help),
                                       version),
                         cmds, gopts))

parse(cmds, gopts, help, version, h, env, argv, run) ==
    AfterMatching(Matching(cmds, gopts, h, env, argv, run), cmds, gopts, help, version)

(***************************************************************************)
(* The program: registration (command, option, help, version) and parse.   *)
(* Registration ends with the first call of parse.                         *)
(***************************************************************************)
Seqs(A, n) == UNION {[1..k -> A] : k \in 0..n}

\* the two execution-path entries that precede the tokens
ExecPath == <<"node", "cli">>

\* the caller's environment value
Envs == {"env"}

NoCall == [env |-> "", argv |-> <<>>, run |-> FALSE, n |-> 0]

Init ==
    /\ commands = <<>>
    /\ globalOptions = <<>>
    /\ showHelpOnExit = FALSE
    /\ showVersionOnExit = FALSE
    /\ heap = <<>>
    /\ pristine = <<>>
    /\ call = NoCall
    /\ cntx = NewCntx("", <<>>)
    /\ err = ""
    /\ returned = FALSE
    /\ bound = NewCntx("", <<>>)
    /\ events = <<>>
    /\ outputs = <<>>
    /\ calls = <<>>

\* lines 78-83, with the options and the handler chained onto the new command
command(c) ==
    /\ call = NoCall
    /\ Len(commands) < MaxCommands
    /\ c \notin Range(commands)
    /\ commands' = Append(commands, c)
    /\ UNCHANGED <<globalOptions, showHelpOnExit, showVersionOnExit, heap, pristine,
                   call, cntx, err, returned, bound, events, outputs, calls>>

\* lines 90-93; a default that is an object literal is a new object of the heap
option(o, objectDefault) ==
    /\ call = NoCall
    /\ \A i \in DOMAIN globalOptions : globalOptions[i].rawName # o.rawName
    /\ IF objectDefault
       THEN /\ heap' = Append(heap, {})
            /\ pristine' = Append(pristine, {})
            /\ globalOptions' = Append(globalOptions, [o EXCEPT !.default = Ref(Len(heap) + 1)])
       ELSE /\ globalOptions' = Append(globalOptions, o)
            /\ UNCHANGED <<heap, pristine>>
    /\ UNCHANGED <<commands, showHelpOnExit, showVersionOnExit,
                   call, cntx, err, returned, bound, events, outputs, calls>>

\* lines 99-104
help ==
    /\ call = NoCall
    /\ ~showHelpOnExit
    /\ globalOptions' = Append(globalOptions, Option("-h, --help", Undef, FALSE))
    /\ showHelpOnExit' = TRUE
    /\ UNCHANGED <<commands, showVersionOnExit, heap, pristine,
                   call, cntx, err, returned, bound, events, outputs, calls>>

\* lines 110-114
version ==
    /\ call = NoCall
    /\ ~showVersionOnExit
    /\ globalOptions' = Append(globalOptions, Option("-v, --version", Undef, FALSE))
    /\ showVersionOnExit' = TRUE
    /\ UNCHANGED <<commands, showHelpOnExit, heap, pristine,
                   call, cntx, err, returned, bound, events, outputs, calls>>

\* what a call of parse leaves behind: a returned context or a raised error
Outcome(st, env, argv, run) ==
    /\ call' = [env |-> env, argv |-> argv, run |-> run, n |-> 1]
    /\ heap' = st.heap
    /\ err' = st.err
    /\ returned' = (st.err = "")
    /\ cntx' = IF st.err = "" THEN st.cntx ELSE cntx
    /\ bound' = st.bound
    /\ events' = st.events
    /\ outputs' = st.outputs
    /\ calls' = st.calls
    /\ UNCHANGED <<commands, globalOptions, showHelpOnExit, showVersionOnExit, pristine>>

\* lines 172-248: one call of parse
Parse(env, argv, run) ==
    Outcome(parse(commands, globalOptions, showHelpOnExit, showVersionOnExit,
                  heap, env, argv, run),
            env, argv, run)

(***************************************************************************)
(* Spec: a program that declares commands with their options and           *)
(* handlers, switches help and version on, and calls parse once.           *)
(***************************************************************************)
CommandTemplates ==
    { Command("build", <<>>, FALSE, FALSE, FALSE),
      Command("build", <<Option("--out <dir>", Undef, FALSE)>>, TRUE, FALSE, FALSE),
      Command("rm <dir>", <<>>, TRUE, FALSE, FALSE),
      Command("[src] [...rest]", <<>>, TRUE, TRUE, FALSE) }

Tokens == {"build", "rm", "", "--", "--help", "--version", "--zz", "--out=x"}

Next ==
    \/ \E c \in CommandTemplates : command(c)
    \/ help
    \/ version
    \/ \E env \in Envs, toks \in Seqs(Tokens, MaxArgv), run \in BOOLEAN :
          call = NoCall /\ Parse(env, ExecPath \o toks, run)

Spec == Init /\ [][Next]_vars

(***************************************************************************)
(* SpecOptions: a program that declares global options (aliases,           *)
(* defaults, coercions, dot-nested and negated ones) and calls parse any   *)
(* number of times.                                                        *)
(***************************************************************************)
OptionTemplates ==
    { Option("-t, --type [type]", Undef, FALSE),
      Option("-t, --type [type]", Str("node"), FALSE),
      Option("-t, --type [type]", Undef, TRUE),
      Option("-t, --type [type]", Str("node"), TRUE),
      Option("--env.* [value]", Undef, FALSE),
      Option("--no-clear-screen", Undef, FALSE) }

OptionTokens == {"--type", "-t", "x", "--env.b", "--env.c=x", "--no-clear-screen"}

NextOptions ==
    \/ \E o \in OptionTemplates : option(o, FALSE)
    \/ option(Option("--env.* [value]", Undef, FALSE), TRUE)
    \/ \E env \in Envs, toks \in Seqs(OptionTokens, MaxArgv) :
          Parse(env, ExecPath \o toks, TRUE)

SpecOptions == Init /\ [][NextOptions]_vars

(***************************************************************************)
(* Properties.  They are stated over the last call of parse.               *)
(***************************************************************************)
\* the tokens of the last call
Toks == SubSeqFrom(call.argv, 3)
\* the tokenization of the last call under command number i
Tokenized(i) == mri(Toks, commands, i, globalOptions, pristine)
Named == {i \in DOMAIN commands : commands[i].name # ""}
Defaults == {i \in DOMAIN commands : commands[i].name = ""}
\* the named commands whose name is the first positional token
Matching1 == {i \in Named : FirstArg(Tokenized(i)) = commands[i].name}
Min(S) == CHOOSE i \in S : \A j \in S : i <= j
\* help or version was shown
ShortCircuited == outputs # <<>>
\* the command the matching stage bound
Cmd == commands[bound.matchedCommand]
HelpSet == Truthy(bound.options["help"]) /\ showHelpOnExit
VersionSet == Truthy(bound.options["version"]) /\ showVersionOnExit
\* the context has no command and no handler result
Cleared ==
    /\ cntx.matchedCommand = NoCommand
    /\ cntx.matchedCommandName = undefined
    /\ cntx.result = Undef

\* C1: with at most one matching named command and at most one default
\* command, a first positional token that is a named command's name binds that
\* command (name recorded, token dropped from args); otherwise the default
\* command is bound with every positional token kept, and no command is bound
\* when there is no default.
C1_MatchingPrecedence ==
    (returned /\ ~ShortCircuited /\ Cardinality(Matching1) <= 1 /\ Cardinality(Defaults) <= 1) =>
        IF Matching1 # {}
        THEN LET i == Min(Matching1)
             IN /\ cntx.matchedCommand = i
                /\ cntx.matchedCommandName = commands[i].name
                /\ cntx.args = SubSeqFrom(Tokenized(i).args, 2)
        ELSE IF Defaults # {}
        THEN LET d == Min(Defaults)
             IN /\ cntx.matchedCommand = d
                /\ cntx.args = Tokenized(d).args
        ELSE cntx.matchedCommand = NoCommand

\* C2: when two or more named commands match the first positional token, the
\* earliest-registered one is bound, with its args and options, and exactly
\* one command-match event is emitted.
C2_FirstSuccessWins ==
    (returned /\ ~ShortCircuited /\ Cardinality(Matching1) >= 2) =>
        LET i == Min(Matching1)
        IN /\ cntx.matchedCommand = i
           /\ cntx.args = SubSeqFrom(Tokenized(i).args, 2)
           /\ cntx.options = Tokenized(i).options
           /\ Len(events) = 1

UnknownKey ==
    \E k \in PresentKeys(bound.options) \ {"--"} :
        \A i \in DOMAIN (globalOptions \o Cmd.options) :
            k \notin Range((globalOptions \o Cmd.options)[i].names)
UnknownFails == ~Cmd.config.allowUnknownOptions /\ UnknownKey
ValueFails ==
    \E i \in DOMAIN (globalOptions \o Cmd.options) :
        /\ (globalOptions \o Cmd.options)[i].shape = "required"
        /\ bound.options[(globalOptions \o Cmd.options)[i].name] = Undef
ArgsFail == Len(bound.args) < Cardinality({i \in DOMAIN Cmd.args : Cmd.args[i].required})
\* parse ran with run enabled, without short-circuit, and matched a command
RunsMatched ==
    call.n > 0 /\ call.run /\ ~ShortCircuited /\ bound.matchedCommand # NoCommand
\* ... a command that has a handler
HandlerPath == RunsMatched /\ Cmd.commandAction

\* C4 as stated: an undeclared option key raises the Unknown-Option error for
\* a matched command with the check enabled, with or without a handler.
C4_UnknownOptionAnyCommand ==
    (RunsMatched /\ UnknownFails) => (err = "UnknownOption" /\ ~returned)

\* C4 amended: an undeclared option key raises the Unknown-Option error for a
\* matched command that has a handler and the check enabled.
C4_UnknownOptionRaised ==
    (HandlerPath /\ UnknownFails) => (err = "UnknownOption" /\ ~returned)

\* an unknown option on an invocation that matched a command with a handler
C4_Witness == HandlerPath /\ UnknownFails /\ bound.matchedCommandName = "build"

\* the options of the last call: the global ones and the bound command's
CliOptions ==
    globalOptions \o (IF bound.matchedCommand = NoCommand THEN <<>> ELSE Cmd.options)

\* C5: every alias name of a declared option holds the same value in the
\* final options mapping.
C5_AliasEquivalence ==
    returned =>
        \A i \in DOMAIN CliOptions :
            \A a, b \in Range(CliOptions[i].names) :
                Deep(cntx.options[a], heap) = Deep(cntx.options[b], heap)

DoubleDash == IndexOf(Toks, "--")
HeadToks == IF DoubleDash > 0 THEN SubSeq(Toks, 1, DoubleDash - 1) ELSE Toks
TailToks == IF DoubleDash > 0 THEN SubSeqFrom(Toks, DoubleDash + 1) ELSE <<>>
\* the option keys a flag token can set: its camel-cased first path segment
\* and the other names of the options that declare it
KeysOfToken(arg) ==
    LET k == SplitDots(camelcaseOptionName(Lex(arg).name))[1]
    IN {k} \cup UNION {Range(CliOptions[i].names) :
                        i \in {i \in DOMAIN CliOptions : k \in Range(CliOptions[i].names)}}
HeadKeys == UNION {KeysOfToken(HeadToks[j]) : j \in {j \in DOMAIN HeadToks : StartsWithDash(HeadToks[j])}}
DefaultKeys ==
    UNION {Range(CliOptions[i].names) :
             i \in {i \in DOMAIN CliOptions :
                      CliOptions[i].default # Undef \/ CliOptions[i].coerce}}
HeadTexts == Range(HeadToks) \cup {Lex(HeadToks[j]).val : j \in DOMAIN HeadToks}
FromHead(v) == v.t = "s" => v.s \in HeadTexts

C8_ParseIsolation ==
    call.n > 0 =>
        /\ heap = pristine
        /\ returned =>
              /\ cntx.args = parse(commands, globalOptions, showHelpOnExit, showVersionOnExit,
                                   pristine, call.env, call.argv, call.run).cntx.args
              /\ \A k \in Keys :
                    Deep(cntx.options[k], heap)
                    = Deep(parse(commands, globalOptions, showHelpOnExit, showVersionOnExit,
                                 pristine, call.env, call.argv, call.run).cntx.options[k],
                           pristine)

\* C9: the final value of an option that declares a coercion, when it has
\* one, is an array whose elements had the coercion applied exactly once.
C9_CoercedOnce ==
    returned =>
        \A i \in DOMAIN CliOptions :
            CliOptions[i].coerce =>
                LET v == cntx.options[CliOptions[i].name]
                IN v # Undef =>
                      /\ v.t = "a"
                      /\ \A j \in DOMAIN v.a : v.a[j].n = 1

====
